---- MODULE Spec2Model ----
(***************************************************************************)
(* A model of skills/epub-translator/scripts/epub_utils.py: the archive    *)
(* extractor and packer working on one working directory, the manifest     *)
(* reader, and the metadata editor.                                        *)
(*                                                                         *)
(* Paths are sequences of path segments.  File contents are strings; the   *)
(* XML documents the code parses are strings that ParseContainer turns     *)
(* into the structure ElementTree would give.                              *)
(***************************************************************************)
EXTENDS Naturals, Sequences, FiniteSets, TLC

VARIABLES
    archive,      \* the input archive A of extract_epub: a sequence of entries
    dirExists,    \* whether the working directory exists on disk
    files,        \* regular files under the working directory: relative path -> bytes
    dirs,         \* subdirectories of the working directory (relative paths)
    extractRes,   \* how the call of extract_epub ended, and the record it returned
    packRes,      \* how the call of pack_epub ended, and the archive it wrote
    opfDoc,       \* manifest reader: the package document at the rootfile's path
    present,      \* manifest reader: the content files on disk, relative to the root
    reader,       \* manifest reader: the running call, its scratch directory, its result
    opfFile,      \* metadata editor: the package document on disk
    edits         \* metadata editor: the calls made so far and what each left on disk

archiveVars == <<archive, dirExists, files, dirs, extractRes, packRes>>
readerVars == <<opfDoc, present, reader>>
editorVars == <<opfFile, edits>>
vars == <<archiveVars, readerVars, editorVars>>

----------------------------------------------------------------------------
(* Bounds *)

\* The longest input archive, in entries.
MaxEntries == 3

\* The most item children of a manifest.
MaxItems == 2

\* The longest title text of a package document, and the longest title suffix
\* given to the metadata editor, in characters.
MaxTitleLen == 2
MaxSuffixLen == 2

----------------------------------------------------------------------------
(* Paths and the file system *)

ZIP_STORED == "STORED"
ZIP_DEFLATED == "DEFLATED"

\* The directory given as output_dir to extract_epub and as source_dir to pack_epub.
WorkDir == <<"work">>

MimetypeName == "mimetype"
MimetypePath == <<MimetypeName>>
ContainerPath == <<"META-INF", "container.xml">>

NoFiles == [p \in {} |-> ""]

Last(p) == p[Len(p)]
Parent(p) == SubSeq(p, 1, Len(p) - 1)
ProperPrefixes(p) == {SubSeq(p, 1, n) : n \in 1..(Len(p) - 1)}

\* pathlib's a / b for a relative b.
PathJoin(a, b) == a \o b

\* pathlib's p.relative_to(base), for p under base.
RelativeTo(p, base) == SubSeq(p, Len(base) + 1, Len(p))

\* Path.exists(): true of a regular file and of a directory alike.
Exists(fs, p) == p \in DOMAIN fs.files \/ p \in fs.dirs \/ (p = <<>> /\ fs.exists)

PutFile(f, p, d) == [q \in DOMAIN f \cup {p} |-> IF q = p THEN d ELSE f[q]]

----------------------------------------------------------------------------
(* The container descriptor *)

RootfileDoc == "<container><rootfiles><rootfile full-path='OEBPS/content.opf'/></rootfiles></container>"
NoFullPathDoc == "<container><rootfiles><rootfile/></rootfiles></container>"
NoRootfileDoc == "<container><rootfiles/></container>"
MalformedDoc == "<container><rootfiles>"

\* ElementTree.parse of the descriptor, then root.find(".//{...}rootfile") and
\* rootfile.get("full-path").  Bytes that are not XML do not parse.
ParseContainer(data) ==
    CASE data = RootfileDoc ->
            [wellFormed |-> TRUE, hasRootfile |-> TRUE, hasFullPath |-> TRUE,
             fullPath |-> <<"OEBPS", "content.opf">>]
      [] data = NoFullPathDoc ->
            [wellFormed |-> TRUE, hasRootfile |-> TRUE, hasFullPath |-> FALSE,
             fullPath |-> <<>>]
      [] data = NoRootfileDoc ->
            [wellFormed |-> TRUE, hasRootfile |-> FALSE, hasFullPath |-> FALSE,
             fullPath |-> <<>>]
      [] OTHER ->
            [wellFormed |-> FALSE, hasRootfile |-> FALSE, hasFullPath |-> FALSE,
             fullPath |-> <<>>]

----------------------------------------------------------------------------
(* Input archives and the working directory before the first call: absent,
   empty, or holding files of an earlier use *)

FileEntry(n, m, d) == [name |-> n, isDir |-> FALSE, method |-> m, data |-> d]
DirEntry(n) == [name |-> n, isDir |-> TRUE, method |-> ZIP_STORED, data |-> ""]

EntryChoices ==
    {FileEntry(MimetypePath, m, "application/epub+zip") : m \in {ZIP_STORED, ZIP_DEFLATED}}
    \cup {FileEntry(<<"a">>, ZIP_DEFLATED, d) : d \in {"d1", "d2"}}
    \cup {FileEntry(<<"sub", MimetypeName>>, ZIP_DEFLATED, "d1")}
    \cup {FileEntry(<<MimetypeName, "a">>, ZIP_DEFLATED, "d1")}
    \cup {FileEntry(ContainerPath, ZIP_DEFLATED, d) :
            d \in {RootfileDoc, NoFullPathDoc, NoRootfileDoc, MalformedDoc}}
    \cup {DirEntry(<<"empty">>)}

Archives == UNION {[1..n -> EntryChoices] : n \in 0..MaxEntries}

Tree(e, f, d) == [exists |-> e, files |-> f, dirs |-> d]

InitialTrees ==
    { Tree(FALSE, NoFiles, {}),
      Tree(TRUE, NoFiles, {}),
      Tree(TRUE, PutFile(NoFiles, <<"a">>, "d2"), {}),
      Tree(TRUE, PutFile(NoFiles, ContainerPath, RootfileDoc), {<<"META-INF">>}),
      Tree(TRUE,
           PutFile(PutFile(NoFiles, MimetypePath, "application/epub+zip"),
                   <<"sub", MimetypeName>>, "d1"),
           {<<"sub">>}) }

----------------------------------------------------------------------------
(* extract_epub *)

\* ZipFile._extract_member: make the missing parent directories, then make the
\* directory or write the file.  A regular file in the way of a directory, or a
\* directory in the way of a file, raises OSError.
ExtractMember(fs, e) ==
    LET ups == ProperPrefixes(e.name)
    IN  IF \E q \in ups : q \in DOMAIN fs.files
        THEN [fs |-> fs, ok |-> FALSE]
        ELSE IF e.isDir
        THEN IF e.name \in DOMAIN fs.files
             THEN [fs |-> Tree(TRUE, fs.files, fs.dirs \cup ups), ok |-> FALSE]
             ELSE [fs |-> Tree(TRUE, fs.files, fs.dirs \cup ups \cup {e.name}), ok |-> TRUE]
        ELSE IF e.name \in fs.dirs
             THEN [fs |-> Tree(TRUE, fs.files, fs.dirs \cup ups), ok |-> FALSE]
             ELSE [fs |-> Tree(TRUE, PutFile(fs.files, e.name, e.data), fs.dirs \cup ups),
                   ok |-> TRUE]

\* ZipFile.extractall: the members in archive order; the first failure ends it
\* and leaves what was already written.
RECURSIVE ExtractAll(_, _)
ExtractAll(fs, entries) ==
    IF entries = <<>>
    THEN [fs |-> fs, ok |-> TRUE]
    ELSE LET r == ExtractMember(fs, Head(entries))
         IN  IF r.ok THEN ExtractAll(r.fs, Tail(entries)) ELSE r

NoRecord == [opf_path |-> <<>>, opf_full_path |-> <<>>]

Raised(fs, err) == [fs |-> fs, outcome |-> err, hasRecord |-> FALSE, record |-> NoRecord]

\* LocateOpf without the check of line 56 for a missing rootfile.
LocateOpfNoRootfileCheck(out, fs) ==
    IF ~Exists(fs, ContainerPath)
    THEN Raised(fs, "FileNotFoundError")
    ELSE IF ContainerPath \in fs.dirs
    THEN Raised(fs, "OSError")
    ELSE LET doc == ParseContainer(fs.files[ContainerPath])
         IN  IF ~doc.wellFormed THEN Raised(fs, "ParseError")
             ELSE [fs |-> fs, outcome |-> "ok", hasRecord |-> TRUE,
                   record |-> [opf_path |-> doc.fullPath,
                               opf_full_path |-> PathJoin(out, doc.fullPath)]]

\* Lines 47-65: the descriptor is looked up under the output directory out,
\* parsed, and the record is built.
LocateOpf(out, fs) ==
    IF ~Exists(fs, ContainerPath)
    THEN Raised(fs, "FileNotFoundError")
    ELSE IF ContainerPath \in fs.dirs
    THEN Raised(fs, "OSError")
    ELSE LET doc == ParseContainer(fs.files[ContainerPath])
         IN  IF ~doc.wellFormed THEN Raised(fs, "ParseError")
             ELSE IF ~doc.hasRootfile THEN Raised(fs, "ValueError")
             ELSE IF ~doc.hasFullPath THEN Raised(fs, "TypeError")
             ELSE [fs |-> fs, outcome |-> "ok", hasRecord |-> TRUE,
                   record |-> [opf_path |-> doc.fullPath,
                               opf_full_path |-> PathJoin(out, doc.fullPath)]]

\* extract_epub(epub_path, output_dir) on the tree fs0 of output_dir = out.
ExtractEpubOn(arch, out, fs0) ==
    LET made == Tree(TRUE, fs0.files, fs0.dirs)
        x == ExtractAll(made, arch)
    IN  IF ~x.ok THEN Raised(x.fs, "OSError") ELSE LocateOpf(out, x.fs)

CurrentTree == Tree(dirExists, files, dirs)

ExtractEpub ==
    /\ extractRes.outcome = "none"
    /\ LET r == ExtractEpubOn(archive, WorkDir, CurrentTree)
       IN  /\ dirExists' = r.fs.exists
           /\ files' = r.fs.files
           /\ dirs' = r.fs.dirs
           /\ extractRes' = [outcome |-> r.outcome, hasRecord |-> r.hasRecord,
                             record |-> r.record,
                             targetWasEmpty |-> (files = NoFiles /\ dirs = {})]
    /\ UNCHANGED <<archive, packRes, readerVars, editorVars>>

----------------------------------------------------------------------------
(* pack_epub *)

\* Every order in which a directory listing may return the members of S.
RECURSIVE Orders(_)
Orders(S) ==
    IF S = {} THEN {<<>>}
    ELSE UNION {{<<x>> \o s : s \in Orders(S \ {x})} : x \in S}

FilesIn(fs, d) == {p \in DOMAIN fs.files : Parent(p) = d}
SubdirsOf(fs, d) == {q \in fs.dirs : Parent(q) = d}

\* os.walk(source_dir), top down: a directory's own files, then each of its
\* subdirectories in turn, as the (root, file) pairs of the two nested loops
\* of lines 166-167.  A source directory that does not exist yields nothing:
\* os.walk swallows the error of its scandir.
RECURSIVE Walk(_, _), WalkEach(_, _)
Walk(fs, d) ==
    {own \o below :
        own \in {[i \in 1..Len(o) |-> [root |-> PathJoin(WorkDir, d), file |-> Last(o[i])]] :
                    o \in Orders(FilesIn(fs, d))},
        below \in UNION {WalkEach(fs, o) : o \in Orders(SubdirsOf(fs, d))}}
WalkEach(fs, ds) ==
    IF ds = <<>> THEN {<<>>}
    ELSE {a \o b : a \in Walk(fs, Head(ds)), b \in WalkEach(fs, Tail(ds))}

\* Line 163: the compression the mimetype entry is written with.
MimetypeCompressType == ZIP_STORED

\* ZipFile.write(path, arcname, compress_type): a directory becomes a directory
\* entry, which is always stored; a file takes the compression asked for.
ZipWrite(fs, p, arcname, compress_type) ==
    IF p \in fs.dirs
    THEN DirEntry(arcname)
    ELSE FileEntry(arcname, compress_type, fs.files[p])

\* Lines 161-163.
WriteMimetype(fs) ==
    IF Exists(fs, MimetypePath)
    THEN <<ZipWrite(fs, MimetypePath, MimetypePath, MimetypeCompressType)>>
    ELSE <<>>

\* Line 168.
SkipInWalk(file) == file = MimetypeName

\* Lines 166-173 over the walk w: every file but those named mimetype, under
\* the archive's default compression (ZIP_DEFLATED, line 159).
RECURSIVE WriteWalk(_, _)
WriteWalk(fs, w) ==
    IF w = <<>> THEN <<>>
    ELSE LET file_path == PathJoin(Head(w).root, <<Head(w).file>>)
             arcname == RelativeTo(file_path, WorkDir)
         IN  IF SkipInWalk(Head(w).file)
             THEN WriteWalk(fs, Tail(w))
             ELSE <<ZipWrite(fs, arcname, arcname, ZIP_DEFLATED)>> \o WriteWalk(fs, Tail(w))

PackEntriesMimetypeLast(fs, w) == WriteWalk(fs, w) \o WriteMimetype(fs)

\* The entries pack_epub writes, in order.
PackEntries(fs, w) == WriteMimetype(fs) \o WriteWalk(fs, w)

\* pack_epub(source_dir, output_path).  ZipFile(output_path, 'w') raises when
\* the output cannot be opened for writing, and nothing is written; otherwise
\* the archive is written whatever the source directory is.
PackEpub ==
    /\ packRes.outcome = "none"
    /\ \E writable \in BOOLEAN :
        \E w \in Walk(CurrentTree, <<>>) :
            packRes' = [outcome |-> IF writable THEN "ok" ELSE "IOError",
                        written |-> writable,
                        entries |-> IF writable THEN PackEntries(CurrentTree, w) ELSE <<>>,
                        src |-> CurrentTree,
                        afterExtract |-> extractRes.outcome # "none"]
    /\ UNCHANGED <<archive, dirExists, files, dirs, extractRes, readerVars, editorVars>>

----------------------------------------------------------------------------
(* The manifest reader: list_content_files and get_content_files *)

XhtmlType == "application/xhtml+xml"
HtmlType == "text/html"

\* The scratch directory tempfile.TemporaryDirectory() makes for one call.
TempDir == <<"tmp">>

\* The package document's path as the descriptor RootfileDoc gives it.
OpfPath == <<"OEBPS", "content.opf">>

ContentPaths == {<<"OEBPS", "ch1.xhtml">>, <<"OEBPS", "ch2.html">>}

\* A manifest item as the attributes the code reads; an absent attribute reads
\* as "" (lines 89-91), which as an href is the empty relative path.
Item(i, h, m) == [id |-> i, href |-> h, mediaType |-> m]

ItemChoices ==
    {Item(i, h, m) : i \in {"ch1", "cover"},
                     h \in {<<"ch1.xhtml">>, <<"ch2.html">>, <<>>},
                     m \in {XhtmlType, HtmlType, "image/jpeg", ""}}

OpfDoc(s, hm, its) == [state |-> s, hasManifest |-> hm, items |-> its]

\* The package document: no file at its path, a file that is not XML, a
\* document without manifest, or a manifest with its item children in order.
OpfDocs ==
    {OpfDoc("missing", FALSE, <<>>), OpfDoc("malformed", FALSE, <<>>),
     OpfDoc("ok", FALSE, <<>>)}
    \cup {OpfDoc("ok", TRUE, its) :
            its \in UNION {[1..n -> ItemChoices] : n \in 0..MaxItems}}

\* The tree under the root the reader works on: the descriptor c (or none),
\* the package document if there is one, and the content files present.
ReaderTree(c, doc, here) ==
    LET base == [p \in here |-> "d1"]
        withOpf == IF doc.state = "missing" THEN base ELSE PutFile(base, OpfPath, "opf")
    IN  Tree(TRUE,
             IF c = "absent" THEN withOpf ELSE PutFile(withOpf, ContainerPath, c),
             {<<"OEBPS">>} \cup (IF c = "absent" THEN {} ELSE {<<"META-INF">>}))

\* Line 93 and line 122.
IsContentType(media_type) == media_type \in {XhtmlType, HtmlType}

HrefAssumedPresent(root, fs, opf_dir, href) == TRUE

\* Lines 94-95 and 123-124: full_path = opf_dir / href, and full_path.exists().
HrefExists(root, fs, opf_dir, href) ==
    Exists(fs, RelativeTo(PathJoin(opf_dir, href), root))

\* Lines 88-101: the loop of list_content_files over the item children.
RECURSIVE ListItems(_, _, _, _)
ListItems(root, fs, opf_dir, items) ==
    IF items = <<>> THEN <<>>
    ELSE LET item == Head(items)
             rest == ListItems(root, fs, opf_dir, Tail(items))
         IN  IF IsContentType(item.mediaType) /\ HrefExists(root, fs, opf_dir, item.href)
             THEN <<[id |-> item.id, href |-> item.href,
                     path |-> PathJoin(opf_dir, item.href),
                     media_type |-> item.mediaType]>> \o rest
             ELSE rest

\* Lines 118-125: the loop of get_content_files over the item children.
RECURSIVE GetPaths(_, _, _, _)
GetPaths(root, fs, opf_dir, items) ==
    IF items = <<>> THEN <<>>
    ELSE LET item == Head(items)
             rest == GetPaths(root, fs, opf_dir, Tail(items))
         IN  IF IsContentType(item.mediaType) /\ HrefExists(root, fs, opf_dir, item.href)
             THEN <<PathJoin(opf_dir, item.href)>> \o rest
             ELSE rest

LeaveWithOnReturnOnly(raised) == IF raised THEN "present" ELSE "deleted"

\* Line 76: leaving the with block, by return or by exception, runs
\* TemporaryDirectory.__exit__, which removes the directory.
LeaveWith(raised) == "deleted"

ReaderIdle == [cmd |-> "none", pc |-> "idle", tempDir |-> "none", error |-> "",
               tree |-> Tree(FALSE, NoFiles, {}), opf_full_path |-> <<>>,
               result |-> <<>>]

ReaderRaise(err) ==
    [reader EXCEPT !.pc = "raised", !.error = err, !.tempDir = LeaveWith(TRUE)]

\* Line 76: list_content_files makes its scratch directory.
ListEnter ==
    /\ reader.pc = "idle"
    /\ reader' = [reader EXCEPT !.cmd = "list", !.pc = "extract", !.tempDir = "present"]
    /\ UNCHANGED <<opfDoc, present, archiveVars, editorVars>>

\* Line 77: extract_epub into the scratch directory.  The archive is unreadable,
\* or it expands to the tree of this run with the descriptor c.
ListExtract ==
    /\ reader.pc = "extract"
    /\ \E readable \in BOOLEAN :
        \E c \in {"absent", RootfileDoc, NoFullPathDoc, NoRootfileDoc, MalformedDoc} :
            LET r == LocateOpf(TempDir, ReaderTree(c, opfDoc, present))
            IN  reader' =
                    IF ~readable THEN ReaderRaise("BadZipFile")
                    ELSE IF r.outcome # "ok" THEN ReaderRaise(r.outcome)
                    ELSE [reader EXCEPT !.pc = "parse",
                                        !.tree = r.fs,
                                        !.opf_full_path = r.record.opf_full_path]
    /\ UNCHANGED <<opfDoc, present, archiveVars, editorVars>>

\* Line 81: ET.parse of the package document.
ListParse ==
    /\ reader.pc = "parse"
    /\ reader' =
            IF opfDoc.state = "missing" THEN ReaderRaise("FileNotFoundError")
            ELSE IF opfDoc.state = "malformed" THEN ReaderRaise("ParseError")
            ELSE [reader EXCEPT !.pc = "scan"]
    /\ UNCHANGED <<opfDoc, present, archiveVars, editorVars>>

\* Lines 84-103: the manifest is looked up and scanned, and the list returned.
ListScan ==
    /\ reader.pc = "scan"
    /\ reader' =
            [reader EXCEPT
                !.pc = "returned",
                !.tempDir = LeaveWith(FALSE),
                !.result =
                    IF opfDoc.hasManifest
                    THEN ListItems(TempDir, reader.tree,
                                   Parent(reader.opf_full_path), opfDoc.items)
                    ELSE <<>>]
    /\ UNCHANGED <<opfDoc, present, archiveVars, editorVars>>

\* get_content_files(extract_dir, opf_path) on an extracted working directory.
GetContentFiles ==
    /\ reader.pc = "idle"
    /\ LET opf_full_path == PathJoin(WorkDir, OpfPath)
           tree == ReaderTree(RootfileDoc, opfDoc, present)
       IN  reader' =
            IF opfDoc.state = "missing"
            THEN [reader EXCEPT !.cmd = "get", !.pc = "raised", !.error = "FileNotFoundError"]
            ELSE IF opfDoc.state = "malformed"
            THEN [reader EXCEPT !.cmd = "get", !.pc = "raised", !.error = "ParseError"]
            ELSE [reader EXCEPT
                    !.cmd = "get",
                    !.pc = "returned",
                    !.tree = tree,
                    !.opf_full_path = opf_full_path,
                    !.result =
                        IF opfDoc.hasManifest
                        THEN GetPaths(WorkDir, tree,
                                      Parent(opf_full_path), opfDoc.items)
                        ELSE <<>>]
    /\ UNCHANGED <<opfDoc, present, archiveVars, editorVars>>

----------------------------------------------------------------------------
(* The metadata editor: update_metadata and the update-meta command *)

\* Texts are sequences of characters.  CR and LF are the two line-break
\* characters; the code itself adds the space of line 149.
CR == "\r"
LF == "\n"
Space == " "
Letters == {"a", "b", CR}

Texts(n) == UNION {[1..k -> Letters] : k \in 0..n}

\* Python's  s in t  for strings.
IsSubstring(s, t) ==
    \E i \in 0..Len(t) : i + Len(s) <= Len(t) /\ SubSeq(t, i + 1, i + Len(s)) = s

\* What the XML parser hands ElementTree for the character data t: every line
\* break, CR LF or a lone CR, arrives as a single LF.
RECURSIVE NormalizeNewlines(_)
NormalizeNewlines(t) ==
    IF t = <<>> THEN <<>>
    ELSE IF Head(t) = CR
    THEN IF Len(t) >= 2 /\ t[2] = LF
         THEN <<LF>> \o NormalizeNewlines(Tail(Tail(t)))
         ELSE <<LF>> \o NormalizeNewlines(Tail(t))
    ELSE <<Head(t)>> \o NormalizeNewlines(Tail(t))

\* The package document as a file: whether its bytes are as its author wrote
\* them or as ElementTree serialises the tree (its own XML declaration, the
\* registered prefixes, no comments), and the character data of the two
\* fields as the bytes hold it.
OpfFile(f, hm, hl, l, ht, t) ==
    [form |-> f, hasMetadata |-> hm, hasLang |-> hl, lang |-> l,
     hasTitle |-> ht, title |-> t]

OpfFiles ==
    {OpfFile(f, FALSE, FALSE, "", FALSE, <<>>) : f \in {"authored", "serialized"}}
    \cup {OpfFile(f, TRUE, FALSE, "", FALSE, <<>>) : f \in {"authored", "serialized"}}
    \cup {OpfFile(f, TRUE, TRUE, "en", FALSE, <<>>) : f \in {"authored", "serialized"}}
    \cup {OpfFile(f, TRUE, hl, IF hl THEN "en" ELSE "", TRUE, t) :
            f \in {"authored", "serialized"}, hl \in BOOLEAN, t \in Texts(MaxTitleLen)}

\* Line 134: ET.parse of the file.
ParseOpf(file) == [file EXCEPT !.title = NormalizeNewlines(file.title)]

\* Line 151: tree.write; character data is written as it is (only &, < and >
\* are escaped, and read back the same).
WriteOpf(tree) == [tree EXCEPT !.form = "serialized"]

\* Lines 137-149 on the parsed tree.
EditTree(tree, lang_code, title_suffix) ==
    IF ~tree.hasMetadata THEN tree
    ELSE LET t1 == IF tree.hasLang THEN [tree EXCEPT !.lang = lang_code] ELSE tree
         IN  IF title_suffix # <<>> /\ t1.hasTitle /\ t1.title # <<>>
                /\ ~IsSubstring(title_suffix, t1.title)
             THEN [t1 EXCEPT !.title = t1.title \o <<Space>> \o title_suffix]
             ELSE t1

\* update_metadata(extract_dir, opf_path, lang_code, title_suffix): parse,
\* edit, and write back, whatever was edited.
UpdateMetadata(file, lang_code, title_suffix) ==
    WriteOpf(EditTree(ParseOpf(file), lang_code, title_suffix))

\* Lines 228-235: the update-meta command calls update_metadata only when
\* --lang was given (and not empty).
UpdateMetaCmd(file, lang, title_suffix) ==
    IF lang # "" THEN UpdateMetadata(file, lang, title_suffix) ELSE file

LangChoices == {"", "zh-CN", "ja"}

Edit(via, lang, suffix, after) ==
    [via |-> via, lang |-> lang, suffix |-> suffix, before |-> opfFile, after |-> after]

\* The command line: update-meta with or without --lang and --title-suffix.
UpdateMetaCommand ==
    /\ edits = <<>>
    /\ \E lang \in LangChoices, suffix \in Texts(MaxSuffixLen) :
        /\ opfFile' = UpdateMetaCmd(opfFile, lang, suffix)
        /\ edits' = <<Edit("command", lang, suffix, opfFile')>>
    /\ UNCHANGED <<archiveVars, readerVars>>

\* A direct call of update_metadata.
UpdateMetadataCall ==
    /\ edits = <<>>
    /\ \E lang_code \in LangChoices, suffix \in Texts(MaxSuffixLen) :
        /\ opfFile' = UpdateMetadata(opfFile, lang_code, suffix)
        /\ edits' = <<Edit("call", lang_code, suffix, opfFile')>>
    /\ UNCHANGED <<archiveVars, readerVars>>

\* The same invocation once more, with the same arguments.
RepeatUpdate ==
    /\ Len(edits) = 1
    /\ LET e == edits[1]
       IN  /\ opfFile' = IF e.via = "command"
                         THEN UpdateMetaCmd(opfFile, e.lang, e.suffix)
                         ELSE UpdateMetadata(opfFile, e.lang, e.suffix)
           /\ edits' = Append(edits, Edit(e.via, e.lang, e.suffix, opfFile'))
    /\ UNCHANGED <<archiveVars, readerVars>>

----------------------------------------------------------------------------
(* The specifications, one for each group of commands *)

NotExtracted == [outcome |-> "none", hasRecord |-> FALSE, record |-> NoRecord,
                 targetWasEmpty |-> FALSE]
NotPacked == [outcome |-> "none", written |-> FALSE, entries |-> <<>>,
              src |-> Tree(FALSE, NoFiles, {}), afterExtract |-> FALSE]

EditorIdle == /\ opfFile = OpfFile("authored", FALSE, FALSE, "", FALSE, <<>>)
              /\ edits = <<>>

ReaderUnused == /\ opfDoc = OpfDoc("missing", FALSE, <<>>)
                /\ present = {}
                /\ reader = ReaderIdle

ArchiveUnused == /\ archive = <<>>
                 /\ dirExists = FALSE
                 /\ files = NoFiles
                 /\ dirs = {}
                 /\ extractRes = NotExtracted
                 /\ packRes = NotPacked

\* extract and pack on one working directory, each at most once, in either order.
InitArchive ==
    /\ archive \in Archives
    /\ \E t \in InitialTrees :
        /\ dirExists = t.exists
        /\ files = t.files
        /\ dirs = t.dirs
    /\ extractRes = NotExtracted
    /\ packRes = NotPacked
    /\ ReaderUnused
    /\ EditorIdle

NextArchive == ExtractEpub \/ PackEpub

SpecArchive == InitArchive /\ [][NextArchive]_vars


\* One call of list_content_files, step by step, or one of get_content_files.
InitManifest ==
    /\ opfDoc \in OpfDocs
    /\ present \in SUBSET ContentPaths
    /\ reader = ReaderIdle
    /\ ArchiveUnused
    /\ EditorIdle

NextManifest == ListEnter \/ ListExtract \/ ListParse \/ ListScan \/ GetContentFiles

SpecManifest == InitManifest /\ [][NextManifest]_vars

\* One run of the metadata editor, and the same run repeated.
InitMeta ==
    /\ opfFile \in OpfFiles
    /\ edits = <<>>
    /\ ArchiveUnused
    /\ ReaderUnused

NextMeta == UpdateMetaCommand \/ UpdateMetadataCall \/ RepeatUpdate

SpecMeta == InitMeta /\ [][NextMeta]_vars

----------------------------------------------------------------------------
(* Claims about the packer and the extractor *)

Packed == packRes.outcome = "ok"

\* C1: when a regular file named mimetype lies directly under the source
\* directory, the archive pack_epub wrote has it as its first entry, stored,
\* and every other entry is deflated.
MimetypeFirstAndStored ==
    (Packed /\ MimetypePath \in DOMAIN packRes.src.files) =>
        /\ Len(packRes.entries) >= 1
        /\ packRes.entries[1].name = MimetypePath
        /\ ~packRes.entries[1].isDir
        /\ packRes.entries[1].method = ZIP_STORED
        /\ packRes.entries[1].data = packRes.src.files[MimetypePath]
        /\ \A i \in 2..Len(packRes.entries) : packRes.entries[i].method = ZIP_DEFLATED

\* C1's case: a packed tree with a top-level mimetype file beside other files,
\* one of them nested.
MimetypeFirstWitness ==
    /\ Packed
    /\ MimetypePath \in DOMAIN packRes.src.files
    /\ Len(packRes.entries) >= 3
    /\ \E i \in 2..Len(packRes.entries) : Len(packRes.entries[i].name) > 1

\* C2: the archive pack_epub wrote holds every regular file under the source
\* directory exactly once, under its relative path, and nothing else: no file
\* is left out, none is written twice, no directory is an entry.
EveryFilePackedOnce ==
    Packed =>
        /\ \A p \in DOMAIN packRes.src.files :
              Cardinality({i \in 1..Len(packRes.entries) :
                              /\ packRes.entries[i].name = p
                              /\ ~packRes.entries[i].isDir}) = 1
        /\ \A i \in 1..Len(packRes.entries) :
              /\ ~packRes.entries[i].isDir
              /\ packRes.entries[i].name \in DOMAIN packRes.src.files

\* C8: pack_epub on a source directory that does not exist ends in an I/O
\* error and writes no archive.
MissingSourceFails ==
    (packRes.outcome # "none" /\ ~packRes.src.exists) =>
        (packRes.outcome = "IOError" /\ ~packRes.written)

EntrySet(arch) == {<<arch[i].name, arch[i].data>> : i \in 1..Len(arch)}

StoredMimetypeFirst(arch) ==
    /\ Len(arch) >= 1
    /\ arch[1].name = MimetypePath
    /\ ~arch[1].isDir
    /\ arch[1].method = ZIP_STORED

\* C3: extract_epub of a valid archive A followed by pack_epub of the same
\* directory gives an archive with A's set of entries (names and contents),
\* and with a stored mimetype first when A had one.  Stated for the case most
\* favourable to it: the target directory was empty or absent, and A has no
\* directory entry and no name twice.
RoundTripKeepsEntries ==
    ( /\ extractRes.outcome = "ok"
      /\ extractRes.targetWasEmpty
      /\ Packed
      /\ packRes.afterExtract
      /\ \A i \in 1..Len(archive) : ~archive[i].isDir
      /\ \A i, j \in 1..Len(archive) : archive[i].name = archive[j].name => i = j ) =>
        /\ EntrySet(packRes.entries) = EntrySet(archive)
        /\ StoredMimetypeFirst(archive) => StoredMimetypeFirst(packRes.entries)

Extracted == extractRes.outcome # "none"

\* C9: extract_epub ends in an error, with no record, whenever after the
\* expansion META-INF/container.xml is missing or holds no rootfile; and the
\* record of a successful call gives the rootfile's full-path unchanged and the
\* same path under the target directory.
ExtractFailsOrLocatesOpf ==
    Extracted =>
        /\ ( \/ ContainerPath \notin DOMAIN files
             \/ files[ContainerPath] \in {NoRootfileDoc, MalformedDoc} ) =>
                (extractRes.outcome # "ok" /\ ~extractRes.hasRecord)
        /\ extractRes.outcome = "ok" =>
                /\ extractRes.hasRecord
                /\ files[ContainerPath] = RootfileDoc
                /\ extractRes.record.opf_path = <<"OEBPS", "content.opf">>
                /\ extractRes.record.opf_full_path = <<"work", "OEBPS", "content.opf">>

\* C9's case: the archive was expanded, its descriptor is there and names no
\* rootfile, and the call raised.
ExtractNoRootfileWitness ==
    /\ extractRes.outcome = "ValueError"
    /\ ContainerPath \in DOMAIN files
    /\ files[ContainerPath] = NoRootfileDoc
    /\ Len(archive) >= 2

----------------------------------------------------------------------------
(* Claims about the manifest reader *)

\* An item the reader has to return: one of the two content media types, and
\* its href, taken from the package document's directory OEBPS, is on disk.
QualifyingItem(item) ==
    /\ item.mediaType \in {"application/xhtml+xml", "text/html"}
    /\ LET target == <<"OEBPS">> \o item.href
       IN  target \in DOMAIN reader.tree.files \/ target \in reader.tree.dirs

\* C4: what list_content_files and get_content_files return is exactly the
\* manifest's qualifying items, in document order, none dropped and none
\* added; it is empty when there is no manifest or no qualifying item.
ReaderReturnsQualifyingItems ==
    reader.pc = "returned" =>
        LET q == SelectSeq(opfDoc.items, QualifyingItem)
            root == IF reader.cmd = "list" THEN <<"tmp">> ELSE <<"work">>
        IN  /\ Len(reader.result) = Len(q)
            /\ \A i \in 1..Len(q) :
                  IF reader.cmd = "list"
                  THEN reader.result[i] =
                          [id |-> q[i].id, href |-> q[i].href,
                           path |-> root \o <<"OEBPS">> \o q[i].href,
                           media_type |-> q[i].mediaType]
                  ELSE reader.result[i] = root \o <<"OEBPS">> \o q[i].href
            /\ ~opfDoc.hasManifest => reader.result = <<>>

\* C4's case: a listing of a manifest of two items with a content media type,
\* of which the first is not on disk and the second is returned.
ReaderFiltersWitness ==
    /\ reader.cmd = "list"
    /\ reader.pc = "returned"
    /\ Len(opfDoc.items) = 2
    /\ opfDoc.items[1].mediaType = "text/html"
    /\ opfDoc.items[2].mediaType = "application/xhtml+xml"
    /\ ~QualifyingItem(opfDoc.items[1])
    /\ Len(reader.result) = 1
    /\ reader.result[1].id = opfDoc.items[2].id

\* C10: when a call of list_content_files has ended, by return or by any
\* exception, its scratch directory is gone.
ScratchDirGoneAtExit ==
    (reader.cmd = "list" /\ reader.pc \in {"returned", "raised"}) =>
        reader.tempDir = "deleted"

\* C10's case: the call ended in the parse error of the package document,
\* after the scratch directory was filled.
ScratchDirParseErrorWitness ==
    /\ reader.cmd = "list"
    /\ reader.pc = "raised"
    /\ reader.error = "ParseError"
    /\ reader.opf_full_path = <<"tmp", "OEBPS", "content.opf">>
    /\ opfDoc.state = "malformed"
    /\ reader.tempDir = "deleted"

----------------------------------------------------------------------------
(* Claims about the metadata editor *)

\* C5: the same update run twice leaves the title text, and the language
\* text, that one run left.
SecondUpdateChangesNothing ==
    Len(edits) = 2 =>
        /\ ParseOpf(edits[2].after).title = ParseOpf(edits[1].after).title
        /\ edits[2].after.lang = edits[1].after.lang

\* C6: the package document on disk is as it was, byte for byte, after a run
\* given neither a language code nor a title suffix, and after any run on a
\* document without metadata element.
NoOpLeavesFileAsItWas ==
    \A i \in 1..Len(edits) :
        ( \/ (edits[i].lang = "" /\ edits[i].suffix = <<>>)
          \/ ~edits[i].before.hasMetadata ) =>
            edits[i].after = edits[i].before

\* C7: on a document with metadata, the language text changes only to a
\* supplied code (and stays as it was when none is supplied), and the title
\* text changes only by appending a space and the suffix, when the suffix is
\* not empty and not yet part of a non-empty title, whether or not a language
\* code is supplied.
EditsWhatWasAsked ==
    \A i \in 1..Len(edits) :
        LET e == edits[i]
            old == ParseOpf(e.before)
        IN  e.before.hasMetadata =>
              /\ e.after.lang =
                    IF e.lang # "" /\ old.hasLang THEN e.lang ELSE old.lang
              /\ e.after.title =
                    IF /\ e.suffix # <<>>
                       /\ old.hasTitle
                       /\ old.title # <<>>
                       /\ ~IsSubstring(e.suffix, old.title)
                    THEN old.title \o <<" ">> \o e.suffix
                    ELSE old.title

====
